---- MODULE Spec2Model ----
(***************************************************************************)
(* Client-side session, routing and data-loading model of the BodyArchitect *)
(* single-page application: App / PrivateRoute (routing), AuthPage,         *)
(* Dashboard, AnalysisPage and ProgressPage (loaders, upload, logout).      *)
(*                                                                          *)
(* One action is one run-to-completion step of the JavaScript event loop:   *)
(* a user event handler up to its first await, or the continuation of an    *)
(* async function after the HTTP response it awaits has arrived, together   *)
(* with the renders and effects React and the router run as a consequence.  *)
(***************************************************************************)
EXTENDS Integers, Sequences, FiniteSets, Bags, TLC

\* Analysis identifiers the backend hands out are 1..MaxId.
MaxId == 2
\* Async functions (loaders, uploads, submits) that may be awaiting at once.
MaxPending == 2

Ids == 1..MaxId

\* localStorage.getItem of a missing key
null == "null"
\* Values the backend returns in {token, user} (non-empty strings)
Tokens == {"token"}
Users == {"user"}

\* HTTP outcomes of one request: 200, 401, another HTTP error (404 stands for
\* every non-401 4xx/5xx), or 0 for a network error that has no response.
Statuses == {200, 401, 404, 0}
\* error.response?.data?.detail, when the error response carries one
Details == {"none", "detail"}
Outcomes == {o \in [status : Statuses, detail : Details] :
               o.detail = "detail" => o.status \in {401, 404}}
\* loaders never read the detail
LoaderOutcomes == {o \in Outcomes : o.detail = "none"}

\* file.type of the selected file, as a sequence of characters
ImagePrefix == <<"i", "m", "a", "g", "e", "/">>
FileTypes == { <<"i", "m", "a", "g", "e", "/", "p", "n", "g">>,
               <<"i", "m", "a", "g", "e">>,
               <<"t", "e", "x", "t", "/", "p", "l", "a", "i", "n">>,
               <<>> }
\* e.target.files[0]: undefined, or a file with a declared type
NoFile == [selected |-> FALSE, type |-> <<>>]
Files == {NoFile} \cup {[selected |-> TRUE, type |-> t] : t \in FileTypes}

Protected == {"/dashboard", "/analysis", "/progress"}
Paths == {"/", "/auth"} \cup Protected
Loc(path) == [path |-> path, id |-> 0]
AnalysisLoc(id) == [path |-> "/analysis", id |-> id]
Locations == {Loc(p) : p \in Paths \ {"/analysis"}} \cup {AnalysisLoc(i) : i \in Ids}
NoNav == [path |-> "none", id |-> 0]

VARIABLES
  localStorage,     \* [token, user]: the two persisted keys
  isAuthenticated,  \* App's React state
  location,         \* the router's current location
  Dashboard,        \* state of the mounted Dashboard component
  AnalysisPage,     \* state of the mounted AnalysisPage component
  ProgressPage,     \* state of the mounted ProgressPage component
  AuthPage,         \* state of the mounted AuthPage component
  calls,            \* bag of the async functions suspended at an await
  last              \* the step just taken: handler, response, toast, requests, navigation

vars == <<localStorage, isAuthenticated, location, Dashboard, AnalysisPage,
          ProgressPage, AuthPage, calls, last>>

----------------------------------------------------------------------------
\* Component state on mount (the useState initial values)

DashboardInit == [user |-> null, analyses |-> "[]", stats |-> null,
                  uploading |-> FALSE, loading |-> TRUE]
AnalysisPageInit == [analysis |-> 0, loading |-> TRUE]
ProgressPageInit == [analyses |-> "[]", stats |-> null, loading |-> TRUE]
AuthPageInit == [isLogin |-> TRUE, loading |-> FALSE]

\* A suspended async function: which one, whether the component instance that
\* started it is still mounted, whether its awaited promise has settled
\* (Promise.all settles on the first rejection while other requests are still
\* on the wire), the requests still on the wire, and what its closure holds.
Call(fn, pending, id, isLogin) ==
  [fn |-> fn, live |-> TRUE, settled |-> FALSE, pending |-> pending,
   id |-> id, isLogin |-> isLogin]

\* The async functions each page component owns
PageFns(path) ==
  CASE path = "/dashboard" -> {"loadData", "handleFileUpload"}
    [] path = "/analysis"  -> {"loadAnalysis"}
    [] path = "/progress"  -> {"loadProgress"}
    [] path = "/auth"      -> {"handleSubmit"}
    [] OTHER               -> {}

\* The program state a handler works on, with what the step has done so far
Cur ==
  [localStorage |-> localStorage, isAuthenticated |-> isAuthenticated,
   location |-> location, Dashboard |-> Dashboard, AnalysisPage |-> AnalysisPage,
   ProgressPage |-> ProgressPage, AuthPage |-> AuthPage, calls |-> calls,
   toast |-> "none", issued |-> 0, nav |-> NoNav, unmounted |-> {}]

\* An event record; the step's toast, request count and navigate() target are
\* filled in when the step commits.
Ev(op) ==
  [op |-> op, fn |-> "none", ep |-> "none", status |-> 200, detail |-> "none", id |-> 0,
   handled |-> FALSE, rest |-> {}, live |-> TRUE, file |-> NoFile,
   toast |-> "none", issued |-> 0, nav |-> NoNav]

Commit(s, ev) ==
  /\ BagCardinality(s.calls) <= MaxPending
  /\ localStorage' = s.localStorage
  /\ isAuthenticated' = s.isAuthenticated
  /\ location' = s.location
  /\ Dashboard' = s.Dashboard
  /\ AnalysisPage' = s.AnalysisPage
  /\ ProgressPage' = s.ProgressPage
  /\ AuthPage' = s.AuthPage
  /\ calls' = s.calls
  /\ last' = [ev EXCEPT !.toast = s.toast, !.issued = s.issued, !.nav = s.nav]

----------------------------------------------------------------------------
\* Routing

\* Variant of PrivateRoute that renders its child without reading the token
PrivateRouteOpen(token, children) == children

\* PrivateRoute: the child when a token is stored, else <Navigate to="/auth" />
PrivateRoute(token, children) ==
  IF token # null THEN children ELSE Loc("/auth")

\* The location the router settles on for a navigation to `to`
Resolve(s, to) ==
  IF to.path = "/"
    THEN IF s.isAuthenticated
           THEN PrivateRoute(s.localStorage.token, Loc("/dashboard"))
           ELSE to
    ELSE IF to.path \in Protected
           THEN PrivateRoute(s.localStorage.token, to)
           ELSE to

\* useEffect(() => { loadAnalysis() }, [id])
LoadAnalysisEffect(s, id) ==
  [s EXCEPT !.calls = @ (+) SetToBag({Call("loadAnalysis", {"analysis"}, id, FALSE)}),
            !.issued = @ + 1]

\* The bag of calls with those of the functions `fns` marked as belonging to an
\* unmounted instance
Orphaned(b, fns) ==
  LET dead(c) == IF c.fn \in fns THEN [c EXCEPT !.live = FALSE] ELSE c
  IN [d \in {dead(c) : c \in BagToSet(b)} |->
        CopiesIn(d, b) + (IF d.fn \in fns /\ ~d.live
                            THEN CopiesIn([d EXCEPT !.live = TRUE], b) ELSE 0)]

\* The current page component leaves the tree: its state is dropped and its
\* suspended async functions keep running against an unmounted instance.
Unmount(s) ==
  [s EXCEPT !.unmounted = @ \cup {s.location.path},
            !.Dashboard = DashboardInit, !.AnalysisPage = AnalysisPageInit,
            !.ProgressPage = ProgressPageInit, !.AuthPage = AuthPageInit,
            !.calls = Orphaned(s.calls, PageFns(s.location.path))]

\* The page at `loc` is mounted fresh and its mount effect runs
Mount(s, loc) ==
  LET t == [s EXCEPT !.location = loc] IN
  CASE loc.path = "/dashboard" ->
         [t EXCEPT !.calls = @ (+) SetToBag({Call("loadData", {"me", "history", "stats"}, 0, FALSE)}),
                   !.issued = @ + 3]
    [] loc.path = "/progress" ->
         [t EXCEPT !.calls = @ (+) SetToBag({Call("loadProgress", {"history", "stats"}, 0, FALSE)}),
                   !.issued = @ + 2]
    [] loc.path = "/analysis" -> LoadAnalysisEffect(t, loc.id)
    [] OTHER -> t

\* navigate(to): a route that matches directly and renders the component already
\* on screen keeps that instance (only the [id] effect re-runs); every other
\* navigation, and every redirect through <Navigate>, mounts the target fresh.
navigate(s, to) ==
  LET n == [s EXCEPT !.nav = to]
      dest == Resolve(n, to)
  IN IF dest = to /\ to.path = n.location.path
       THEN IF to.path = "/analysis" /\ to.id # n.location.id
              THEN LoadAnalysisEffect([n EXCEPT !.location = to], to.id)
              ELSE n
       ELSE Mount(Unmount(n), dest)

----------------------------------------------------------------------------
\* App: construction, first render and mount effects for the URL `url`, with
\* whatever the durable storage holds.  isAuthenticated becomes !!token.
AppStart(store, url) ==
  LET s0 == [localStorage |-> store, isAuthenticated |-> store.token # null,
             location |-> Loc("/"), Dashboard |-> DashboardInit,
             AnalysisPage |-> AnalysisPageInit, ProgressPage |-> ProgressPageInit,
             AuthPage |-> AuthPageInit, calls |-> EmptyBag,
             toast |-> "none", issued |-> 0, nav |-> NoNav, unmounted |-> {}]
  IN Mount(s0, Resolve(s0, url))

Stores == {[token |-> null, user |-> null]} \cup
          {[token |-> t, user |-> u] : t \in Tokens, u \in Users}

Init ==
  \E store \in Stores, url \in Locations :
    LET s == AppStart(store, url) IN
    /\ localStorage = s.localStorage
    /\ isAuthenticated = s.isAuthenticated
    /\ location = s.location
    /\ Dashboard = s.Dashboard
    /\ AnalysisPage = s.AnalysisPage
    /\ ProgressPage = s.ProgressPage
    /\ AuthPage = s.AuthPage
    /\ calls = s.calls
    /\ last = [Ev("App") EXCEPT !.issued = s.issued, !.nav = url]

\* The user reloads the page or opens a URL: the running script and its pending
\* requests are gone, storage persists, App starts again.
Reload(url) ==
  Commit(AppStart(localStorage, url), [Ev("App") EXCEPT !.nav = url])

----------------------------------------------------------------------------
\* User events

\* LandingPage: "Get Started" and "Start Free Analysis"
GetStarted ==
  /\ location.path = "/"
  /\ Commit(navigate(Cur, Loc("/auth")), Ev("getStarted"))

\* AuthPage: the sign in / sign up toggle
ToggleAuthMode ==
  /\ location.path = "/auth"
  /\ Commit([Cur EXCEPT !.AuthPage.isLogin = ~@], Ev("toggleAuthMode"))

\* AuthPage.handleSubmit up to its await; the button is disabled while loading
handleSubmit ==
  /\ location.path = "/auth"
  /\ ~AuthPage.loading
  /\ Commit([Cur EXCEPT !.AuthPage.loading = TRUE,
                        !.calls = @ (+) SetToBag({Call("handleSubmit", {"auth"}, 0, AuthPage.isLogin)}),
                        !.issued = @ + 1],
            Ev("submit"))

\* Variant of handleLogout that removes the token and leaves the user stored
handleLogoutTokenOnly(s) ==
  navigate([s EXCEPT !.localStorage.token = null], Loc("/"))

\* Dashboard.handleLogout
handleLogout(s) ==
  navigate([s EXCEPT !.localStorage = [token |-> null, user |-> null]], Loc("/"))

\* The Dashboard renders its buttons, cards and file input once loading is false
DashboardShown == location.path = "/dashboard" /\ ~Dashboard.loading

LogoutClick ==
  /\ DashboardShown
  /\ Commit(handleLogout(Cur), Ev("logout"))

ViewProgress ==
  /\ DashboardShown
  /\ Commit(navigate(Cur, Loc("/progress")), Ev("viewProgress"))

\* A card of the "Recent Analyses" grid
AnalysisCardClick(id) ==
  /\ DashboardShown
  /\ Dashboard.analyses # "[]"
  /\ Commit(navigate(Cur, AnalysisLoc(id)), [Ev("card") EXCEPT !.id = id])

\* String.prototype.startsWith
StartsWith(str, prefix) ==
  /\ Len(str) >= Len(prefix)
  /\ SubSeq(str, 1, Len(prefix)) = prefix

\* Variant of IsImage that tests the prefix "image" without the slash
IsImageWithoutSlash(file) == StartsWith(file.type, <<"i", "m", "a", "g", "e">>)

\* Whether handleFileUpload accepts the file's declared type
IsImage(file) == StartsWith(file.type, ImagePrefix)

\* Dashboard.handleFileUpload up to its await; the input is disabled while uploading
handleFileUpload(file) ==
  /\ DashboardShown
  /\ ~Dashboard.uploading
  /\ LET ev == [Ev("file") EXCEPT !.file = file] IN
     IF ~file.selected THEN Commit(Cur, ev)
     ELSE IF ~IsImage(file)
       THEN Commit([Cur EXCEPT !.toast = "Please upload an image file"], ev)
       ELSE Commit([Cur EXCEPT !.Dashboard.uploading = TRUE,
                               !.calls = @ (+) SetToBag({Call("handleFileUpload", {"upload"}, 0, FALSE)}),
                               !.issued = @ + 1],
                   ev)

\* AnalysisPage: "Back to Dashboard", rendered only with an analysis on screen
AnalysisBack ==
  /\ location.path = "/analysis"
  /\ ~AnalysisPage.loading
  /\ AnalysisPage.analysis # 0
  /\ Commit(navigate(Cur, Loc("/dashboard")), Ev("analysisBack"))

\* ProgressPage: "Back to Dashboard"
ProgressBack ==
  /\ location.path = "/progress"
  /\ ~ProgressPage.loading
  /\ Commit(navigate(Cur, Loc("/dashboard")), Ev("progressBack"))

\* ProgressPage: an item of the timeline
TimelineClick(id) ==
  /\ location.path = "/progress"
  /\ ~ProgressPage.loading
  /\ ProgressPage.analyses # "[]"
  /\ Commit(navigate(Cur, AnalysisLoc(id)), [Ev("timeline") EXCEPT !.id = id])

----------------------------------------------------------------------------
\* HTTP responses: the continuation of the async function that awaits them

\* The suspended call c after its request ep has come back: dropped once
\* nothing of it is left on the wire
Answered(s, c, ep, nowSettled) ==
  LET rest == c.pending \ {ep}
      others == s.calls (-) SetToBag({c})
  IN IF rest = {}
       THEN [s EXCEPT !.calls = others]
       ELSE [s EXCEPT !.calls = others (+)
               SetToBag({[c EXCEPT !.pending = rest, !.settled = nowSettled]})]

\* Variant of Settles for a promise that settles with the first response
SettlesOnFirstResponse(c, ep, o) == ~c.settled

\* Whether the awaited promise settles with this response: a single request
\* always does; Promise.all rejects on its first rejection and resolves when
\* the last request succeeds.
Settles(c, ep, o) ==
  /\ ~c.settled
  /\ (o.status # 200 \/ c.pending = {ep})

\* Variant of RunsFinally for cleanup written at the end of the try block
RunsFinallyOnSuccess(o) == o.status = 200

\* try / catch / finally: the finally block runs whatever the outcome
RunsFinally(o) == TRUE

\* A state update of an async continuation reaches the component only if the
\* instance that started the call is still mounted.
Mounted(c, s, path) == c.live /\ path \notin s.unmounted

RespEv(c, ep, o) ==
  [Ev("response") EXCEPT !.fn = c.fn, !.ep = ep, !.status = o.status,
                         !.detail = o.detail, !.id = c.id, !.live = c.live,
                         !.handled = Settles(c, ep, o), !.rest = c.pending \ {ep}]

\* Variant of loadDataCatch that starts the load again after a failure other
\* than 401
loadDataCatchRetry(s, o) ==
  IF o.status = 401 THEN handleLogout(s)
  ELSE [s EXCEPT !.calls = @ (+) SetToBag({Call("loadData", {"me", "history", "stats"}, 0, FALSE)}),
                 !.issued = @ + 3]

\* Variant of loadDataCatch that logs out on every error
loadDataCatchAnyError(s, o) == handleLogout(s)

\* Dashboard.loadData, catch block: a 401 response logs out
loadDataCatch(s, o) ==
  IF o.status = 401 THEN handleLogout(s) ELSE s

\* Dashboard.loadData after `await Promise.all([...])`
loadDataSettle(c, ep, o) ==
  LET s0 == Answered(Cur, c, ep, c.settled \/ Settles(c, ep, o))
      s1 == IF ~Settles(c, ep, o) THEN s0
            ELSE IF o.status = 200
              THEN IF Mounted(c, s0, "/dashboard")
                     THEN [s0 EXCEPT !.Dashboard.user = "data",
                                     !.Dashboard.analyses = "data",
                                     !.Dashboard.stats = "data"]
                     ELSE s0
              ELSE loadDataCatch(s0, o)
      s2 == IF Settles(c, ep, o) /\ RunsFinally(o) /\ Mounted(c, s1, "/dashboard")
              THEN [s1 EXCEPT !.Dashboard.loading = FALSE]
              ELSE s1
  IN /\ c.fn = "loadData"
     /\ ep \in c.pending
     /\ Commit(s2, RespEv(c, ep, o))

\* ProgressPage.loadProgress, catch block: logs to the console
loadProgressCatch(s, o) == s

\* ProgressPage.loadProgress after `await Promise.all([...])`
loadProgressSettle(c, ep, o) ==
  LET s0 == Answered(Cur, c, ep, c.settled \/ Settles(c, ep, o))
      s1 == IF ~Settles(c, ep, o) THEN s0
            ELSE IF o.status = 200
              THEN IF Mounted(c, s0, "/progress")
                     THEN [s0 EXCEPT !.ProgressPage.analyses = "data",
                                     !.ProgressPage.stats = "data"]
                     ELSE s0
              ELSE loadProgressCatch(s0, o)
      s2 == IF Settles(c, ep, o) /\ RunsFinally(o) /\ Mounted(c, s1, "/progress")
              THEN [s1 EXCEPT !.ProgressPage.loading = FALSE]
              ELSE s1
  IN /\ c.fn = "loadProgress"
     /\ ep \in c.pending
     /\ Commit(s2, RespEv(c, ep, o))

\* AnalysisPage.loadAnalysis, catch block: logs to the console
loadAnalysisCatch(s, o) == s

\* AnalysisPage.loadAnalysis after `await axios.get(...)`; response.data is the
\* record of the id the request was made for
loadAnalysisSettle(c, o) ==
  LET s0 == Answered(Cur, c, "analysis", TRUE)
      s1 == IF o.status = 200
              THEN IF Mounted(c, s0, "/analysis")
                     THEN [s0 EXCEPT !.AnalysisPage.analysis = c.id]
                     ELSE s0
              ELSE loadAnalysisCatch(s0, o)
      s2 == IF RunsFinally(o) /\ Mounted(c, s1, "/analysis")
              THEN [s1 EXCEPT !.AnalysisPage.loading = FALSE]
              ELSE s1
  IN /\ c.fn = "loadAnalysis"
     /\ Commit(s2, RespEv(c, "analysis", o))

\* Variant of ErrorToast that always shows the fallback message
ErrorToastGeneric(o, fallback) == fallback

\* error.response?.data?.detail || fallback
ErrorToast(o, fallback) == IF o.detail # "none" THEN o.detail ELSE fallback

\* Variant of uploadThen that ignores the id of the response
uploadThenFirstId(s, id) ==
  navigate([s EXCEPT !.toast = "Analysis complete!"], AnalysisLoc(1))

\* Dashboard.handleFileUpload, try block after the await
uploadThen(s, id) ==
  navigate([s EXCEPT !.toast = "Analysis complete!"], AnalysisLoc(id))

\* Dashboard.handleFileUpload, catch block
uploadCatch(s, o) ==
  [s EXCEPT !.toast = ErrorToast(o, "Upload failed")]

\* Dashboard.handleFileUpload after `await axios.post(...)`; id is response.data.id
uploadSettle(c, o, id) ==
  LET s0 == Answered(Cur, c, "upload", TRUE)
      s1 == IF o.status = 200 THEN uploadThen(s0, id) ELSE uploadCatch(s0, o)
      s2 == IF RunsFinally(o) /\ Mounted(c, s1, "/dashboard")
              THEN [s1 EXCEPT !.Dashboard.uploading = FALSE]
              ELSE s1
  IN /\ c.fn = "handleFileUpload"
     /\ o.status # 200 => id = 1
     /\ Commit(s2, [RespEv(c, "upload", o) EXCEPT !.id = IF o.status = 200 THEN id ELSE 0])

\* Variant of submitThen that navigates before it stores the session
submitThenNavigateFirst(s, c, token, user) ==
  LET gone == navigate([s EXCEPT !.toast = IF c.isLogin THEN "Welcome back!"
                                           ELSE "Account created successfully!",
                                 !.isAuthenticated = TRUE],
                       Loc("/dashboard"))
  IN [gone EXCEPT !.localStorage = [token |-> token, user |-> user]]

\* AuthPage.handleSubmit, try block after the await
submitThen(s, c, token, user) ==
  LET stored == [s EXCEPT !.localStorage = [token |-> token, user |-> user],
                          !.toast = IF c.isLogin THEN "Welcome back!"
                                    ELSE "Account created successfully!",
                          !.isAuthenticated = TRUE]
  IN navigate(stored, Loc("/dashboard"))

\* Variant of submitCatch that also navigates to the dashboard
submitCatchNavigates(s, o) ==
  navigate([s EXCEPT !.toast = ErrorToast(o, "Authentication failed")], Loc("/dashboard"))

\* AuthPage.handleSubmit, catch block
submitCatch(s, o) ==
  [s EXCEPT !.toast = ErrorToast(o, "Authentication failed")]

\* AuthPage.handleSubmit after `await axios.post(...)`
submitSettle(c, o, token, user) ==
  LET s0 == Answered(Cur, c, "auth", TRUE)
      s1 == IF o.status = 200 THEN submitThen(s0, c, token, user) ELSE submitCatch(s0, o)
      s2 == IF RunsFinally(o) /\ Mounted(c, s1, "/auth")
              THEN [s1 EXCEPT !.AuthPage.loading = FALSE]
              ELSE s1
  IN /\ c.fn = "handleSubmit"
     /\ Commit(s2, RespEv(c, "auth", o))

----------------------------------------------------------------------------
\* One application run: user events and HTTP responses
Run ==
  \/ GetStarted
  \/ ToggleAuthMode
  \/ handleSubmit
  \/ LogoutClick
  \/ ViewProgress
  \/ \E id \in Ids : AnalysisCardClick(id)
  \/ \E file \in Files : handleFileUpload(file)
  \/ AnalysisBack
  \/ ProgressBack
  \/ \E id \in Ids : TimelineClick(id)
  \/ \E c \in BagToSet(calls), ep \in {"me", "history", "stats"}, o \in LoaderOutcomes :
       loadDataSettle(c, ep, o)
  \/ \E c \in BagToSet(calls), ep \in {"history", "stats"}, o \in LoaderOutcomes :
       loadProgressSettle(c, ep, o)
  \/ \E c \in BagToSet(calls), o \in LoaderOutcomes : loadAnalysisSettle(c, o)
  \/ \E c \in BagToSet(calls), o \in Outcomes, id \in Ids : uploadSettle(c, o, id)
  \/ \E c \in BagToSet(calls), o \in Outcomes, token \in Tokens, user \in Users :
       submitSettle(c, o, token, user)

Next ==
  \/ \E url \in Locations : Reload(url)
  \/ Run

Spec == Init /\ [][Next]_vars

\* The responses of each async function
loadDataResponse ==
  \E c \in BagToSet(calls), ep \in {"me", "history", "stats"}, o \in LoaderOutcomes :
    loadDataSettle(c, ep, o)
loadProgressResponse ==
  \E c \in BagToSet(calls), ep \in {"history", "stats"}, o \in LoaderOutcomes :
    loadProgressSettle(c, ep, o)
loadAnalysisResponse ==
  \E c \in BagToSet(calls), o \in LoaderOutcomes : loadAnalysisSettle(c, o)
uploadResponse ==
  \E c \in BagToSet(calls), o \in Outcomes, id \in Ids : uploadSettle(c, o, id)
submitResponse ==
  \E c \in BagToSet(calls), o \in Outcomes, token \in Tokens, user \in Users :
    submitSettle(c, o, token, user)

\* Every request on the wire is eventually answered or rejected by the transport
RequestsSettle ==
  /\ WF_vars(loadDataResponse)
  /\ WF_vars(loadProgressResponse)
  /\ WF_vars(loadAnalysisResponse)
  /\ WF_vars(uploadResponse)
  /\ WF_vars(submitResponse)

\* One application run (no page reload, which would cancel the requests on the
\* wire) in which every request settles
LiveSpec == Init /\ [][Run]_vars /\ RequestsSettle

----------------------------------------------------------------------------
\* What is on screen

\* The render branch of the page at the current location
View ==
  CASE location.path = "/dashboard" ->
         IF Dashboard.loading THEN "Loading..." ELSE "Dashboard"
    [] location.path = "/analysis" ->
         IF AnalysisPage.loading THEN "Loading analysis..."
         ELSE IF AnalysisPage.analysis = 0 THEN "Analysis not found"
         ELSE "Analysis"
    [] location.path = "/progress" ->
         IF ProgressPage.loading THEN "Loading progress..." ELSE "Progress"
    [] location.path = "/auth" -> "Auth"
    [] OTHER -> "Landing"

----------------------------------------------------------------------------
\* Properties

NoSession == [token |-> null, user |-> null]
Loaders == {"loadData", "loadAnalysis", "loadProgress"}
Response(fn) == last.op = "response" /\ last.fn = fn
\* The step just taken showed the user an error: a toast, or a page branch
\* that reports one (no page of this application has such a branch)
ErrorIndicated == last.toast # "none"

\* C1: no protected page is ever on screen without a stored token; a navigation
\* to a protected route made with no token stored ends on /auth, and a step
\* that navigates with no token stored issues no request.
C1_GuardRedirects ==
  /\ location.path \in Protected => localStorage.token # null
  /\ (last.nav.path \in Protected /\ localStorage.token = null)
       => location = Loc("/auth")
  /\ (last.nav # NoNav /\ localStorage.token = null) => last.issued = 0

\* C1 witness: an upload started before a logout succeeds afterwards; its
\* navigation to /analysis/{id} is turned away to /auth.
C1_Witness ==
  /\ Response("handleFileUpload") /\ last.status = 200
  /\ last.nav.path = "/analysis"
  /\ localStorage.token = null
  /\ location = Loc("/auth")

\* C2: after any Dashboard fetch has answered 401, token and user are removed
\* and the user is on `/`.
C2_Dashboard401EndsOnLanding ==
  (Response("loadData") /\ last.status = 401)
    => (localStorage = NoSession /\ location = Loc("/"))

\* C3: after any loader request has answered 401, the session is cleared and
\* the user is on an unauthenticated entry point.
C3_Loader401ClearsSession ==
  (last.op = "response" /\ last.fn \in Loaders /\ last.status = 401)
    => (localStorage = NoSession /\ location.path \in {"/", "/auth"})

\* C4: after an upload has answered 401, the session is cleared and the user is
\* on an unauthenticated entry point.
C4_Upload401ClearsSession ==
  (Response("handleFileUpload") /\ last.status = 401)
    => (localStorage = NoSession /\ location.path \in {"/", "/auth"})

\* C5: routing treats the user as authenticated exactly when a token is stored;
\* a navigation to `/` ends on the dashboard when a token is stored and on the
\* landing page when none is.
C5_RoutingFollowsToken ==
  /\ isAuthenticated <=> localStorage.token # null
  /\ last.nav = Loc("/") =>
       location = (IF localStorage.token # null THEN Loc("/dashboard") ELSE Loc("/"))

\* C6: when a login or register request has succeeded, token and user are
\* stored, the navigation went to /dashboard and the Dashboard is the page on
\* screen (the guard did not bounce to /auth).
C6_LoginLandsOnDashboard ==
  (Response("handleSubmit") /\ last.status = 200)
    => /\ localStorage.token \in Tokens
       /\ localStorage.user \in Users
       /\ last.nav = Loc("/dashboard")
       /\ location = Loc("/dashboard")
       /\ View \in {"Loading...", "Dashboard"}

\* C6 witness: a login has just succeeded from the auth page.
C6_Witness ==
  /\ Response("handleSubmit") /\ last.status = 200 /\ last.live
  /\ location = Loc("/dashboard")
  /\ localStorage.token \in Tokens
  /\ last.issued = 3

\* C7: when the stats fetch of a Dashboard load fails with a non-authorization
\* error after the other two succeeded, the user is shown an error indication.
C7_StatsFailureIsIndicated ==
  (Response("loadData") /\ last.ep = "stats" /\ last.status \notin {200, 401}
     /\ last.handled /\ last.rest = {})
    => ErrorIndicated

\* C8: a loader request that fails with a non-authorization error changes
\* neither storage nor the location, and calls no navigate().
C8_LoaderFailureKeepsSession ==
  [][(last'.op = "response" /\ last'.fn \in Loaders /\ last'.status \notin {200, 401})
       => (localStorage' = localStorage /\ location' = location /\ last'.nav = NoNav)]_vars

\* C8 witness: a Dashboard load has just failed with a non-401 error and the
\* user is still on the dashboard with the session stored.
C8_Witness ==
  /\ Response("loadData") /\ last.status = 404 /\ last.handled /\ last.live
  /\ localStorage.token \in Tokens /\ localStorage.user \in Users
  /\ location = Loc("/dashboard")
  /\ ~Dashboard.loading

\* C9: selecting a file whose type does not start with "image/" issues no
\* request, shows the validation message and changes no state.
C9_NonImageRejected ==
  [][(last'.op = "file" /\ last'.file.selected
        /\ ~StartsWith(last'.file.type, ImagePrefix))
       => /\ last'.issued = 0
          /\ calls' = calls
          /\ last'.toast = "Please upload an image file"
          /\ ~Dashboard'.uploading
          /\ Dashboard' = Dashboard
          /\ localStorage' = localStorage
          /\ isAuthenticated' = isAuthenticated
          /\ last'.nav = NoNav
          /\ location' = location]_vars

\* C9 witness: a file of type "image" (no slash) has just been rejected.
C9_Witness ==
  /\ last.op = "file" /\ last.file.selected
  /\ last.file.type = <<"i", "m", "a", "g", "e">>
  /\ last.toast = "Please upload an image file"

\* C10: a successful upload calls navigate() with /analysis/{id} for the id of
\* its response, which is the page shown when a token is stored; a failed
\* upload calls no navigate() and leaves the location alone.
C10_UploadNavigatesToReturnedId ==
  [][(last'.op = "response" /\ last'.fn = "handleFileUpload")
       => IF last'.status = 200
            THEN /\ last'.nav = AnalysisLoc(last'.id)
                 /\ localStorage'.token # null => location' = AnalysisLoc(last'.id)
            ELSE last'.nav = NoNav /\ location' = location]_vars

\* C10 witness: an upload answered with id 2 and /analysis/2 is on screen.
C10_Witness ==
  /\ Response("handleFileUpload") /\ last.status = 200 /\ last.id = 2
  /\ location = AnalysisLoc(2)
  /\ View = "Loading analysis..."

\* The bag of suspended calls of the async function fn
CallsOf(fn) ==
  [c \in {x \in BagToSet(calls) : x.fn = fn} |-> CopiesIn(c, calls)]

\* Upload requests on the wire, whichever Dashboard instance started them
UploadsInFlight == BagCardinality(CallsOf("handleFileUpload"))

\* C11: while the Dashboard is on screen its in-flight flag is true exactly
\* when an accepted upload request is pending.
C11_FlagTracksPendingUpload ==
  location.path = "/dashboard" => (Dashboard.uploading <=> UploadsInFlight > 0)

\* C12: once the fetch for the route id on screen has answered that no such
\* record exists, the Analysis Detail page shows the not-found state, for the
\* first id and for every later id of the mounted page.
C12_UnknownIdShowsNotFound ==
  (Response("loadAnalysis") /\ last.live /\ last.status = 404
     /\ location = AnalysisLoc(last.id)
     /\ BagCardinality(CallsOf("loadAnalysis")) = 0)
    => View = "Analysis not found"

\* C13: token and user are stored together or not at all: a successful
\* login/register leaves both stored, a logout or a 401 session clear leaves
\* both absent, and no state has exactly one of the two keys.
C13_SessionKeysTogether ==
  /\ localStorage.token = null <=> localStorage.user = null
  /\ (Response("handleSubmit") /\ last.status = 200)
       => (localStorage.token \in Tokens /\ localStorage.user \in Users)
  /\ (last.op = "logout" \/ (Response("loadData") /\ last.status = 401 /\ last.handled))
       => localStorage = NoSession

\* C13 witness: a 401 of a Dashboard fetch has just cleared a stored session.
C13_Witness ==
  /\ Response("loadData") /\ last.status = 401 /\ last.handled /\ last.live
  /\ localStorage = NoSession
  /\ last.nav = Loc("/")

\* C14: a token becomes stored, and isAuthenticated becomes true, only in the
\* step of a login/register response that succeeded; a failed login/register
\* leaves storage and isAuthenticated unchanged and calls no navigate().
C14_OnlyLoginAuthenticates ==
  [][/\ ((localStorage.token = null /\ localStorage'.token # null)
           \/ (~isAuthenticated /\ isAuthenticated'))
          => (last'.op = "response" /\ last'.fn = "handleSubmit" /\ last'.status = 200)
     /\ (last'.op = "response" /\ last'.fn = "handleSubmit" /\ last'.status # 200)
          => /\ localStorage' = localStorage
             /\ isAuthenticated' = isAuthenticated
             /\ last'.nav = NoNav
             /\ location' = location]_vars

\* C14 witness: a login has just failed; the user is still on /auth with no
\* session and sees the failure toast.
C14_Witness ==
  /\ Response("handleSubmit") /\ last.status = 401 /\ last.live
  /\ last.toast = "Authentication failed"
  /\ localStorage = NoSession /\ ~isAuthenticated
  /\ location = Loc("/auth") /\ ~AuthPage.loading

\* C15: an upload that fails with a non-authorization error calls no
\* navigate(), leaves the location and the stored session alone, and shows the
\* detail of the error response when it carries one, else "Upload failed".
C15_UploadFailureToast ==
  [][(last'.op = "response" /\ last'.fn = "handleFileUpload"
        /\ last'.status \notin {200, 401})
       => /\ last'.nav = NoNav
          /\ location' = location
          /\ localStorage' = localStorage
          /\ last'.toast = (IF last'.detail = "detail" THEN "detail" ELSE "Upload failed")]_vars

\* C15 witness: an upload has just failed with an error response that carries
\* a detail, which is the toast shown on the dashboard.
C15_Witness ==
  /\ Response("handleFileUpload") /\ last.status = 404 /\ last.detail = "detail"
  /\ last.toast = "detail"
  /\ location = Loc("/dashboard")
  /\ localStorage.token \in Tokens /\ localStorage.user \in Users

\* Whether a page holds fetched data
DashboardHasData == <<Dashboard.user, Dashboard.analyses, Dashboard.stats>> # <<null, "[]", null>>
ProgressHasData == <<ProgressPage.analyses, ProgressPage.stats>> # <<"[]", null>>

\* C16: the Dashboard and the Progress page hold either all of their fetched
\* data or none of it; data appears only in the step in which the last request
\* of the set succeeds with none failed before, and a page whose load has had a
\* failure holds no data.
C16_LoadersAllOrNothing ==
  [][/\ (DashboardHasData' /\ ~DashboardHasData)
          => /\ last'.op = "response" /\ last'.fn = "loadData" /\ last'.live
             /\ last'.status = 200 /\ last'.handled /\ last'.rest = {}
             /\ Dashboard'.user = "data" /\ Dashboard'.analyses = "data"
             /\ Dashboard'.stats = "data"
     /\ (ProgressHasData' /\ ~ProgressHasData)
          => /\ last'.op = "response" /\ last'.fn = "loadProgress" /\ last'.live
             /\ last'.status = 200 /\ last'.handled /\ last'.rest = {}
             /\ ProgressPage'.analyses = "data" /\ ProgressPage'.stats = "data"
     /\ (last'.op = "response" /\ last'.fn = "loadData" /\ last'.live
           /\ last'.status # 200 /\ location' = Loc("/dashboard"))
          => ~DashboardHasData'
     /\ (last'.op = "response" /\ last'.fn = "loadProgress" /\ last'.live
           /\ last'.status # 200 /\ location' = Loc("/progress"))
          => ~ProgressHasData']_vars

\* C16 witness: the stats fetch of a Dashboard load failed after the other two
\* had succeeded, and the Dashboard is shown without any data.
C16_Witness ==
  /\ Response("loadData") /\ last.ep = "stats" /\ last.status = 404
  /\ last.handled /\ last.rest = {} /\ last.live
  /\ View = "Dashboard"
  /\ ~DashboardHasData

\* Whether a request of the load started by the Dashboard on screen is pending
DashboardLoadPending ==
  \E c \in BagToSet(calls) : c.fn = "loadData" /\ c.live /\ c.pending # {}

\* C17 as stated: the Dashboard content is never rendered while one of the
\* three requests of its load is still pending.
C17_ContentOnlyAfterAllSettled ==
  DashboardShown => ~DashboardLoadPending

\* C17 as amended: the Dashboard leaves its loading state only in the step of a
\* response to its own load that is either a failure or the success of the last
\* of the three requests (and then all three have succeeded and the data is stored).
C17_ContentAfterJoinOrFailure ==
  [][(Dashboard.loading /\ ~Dashboard'.loading)
       => /\ last'.op = "response" /\ last'.fn = "loadData" /\ last'.live
          /\ last'.status # 200 \/ (last'.rest = {} /\ DashboardHasData')]_vars

\* C17 witness: a fetch of the load failed, the Dashboard content is rendered
\* and another request of the same load is still pending.
C17_Witness ==
  /\ Response("loadData") /\ last.status = 0 /\ last.handled /\ last.live
  /\ DashboardShown
  /\ DashboardLoadPending

\* C18: at most one upload request is in flight at any time.
C18_AtMostOneUpload ==
  UploadsInFlight <= 1

\* The in-progress states of the pages on screen
DashboardLoading == location.path = "/dashboard" /\ Dashboard.loading
AnalysisLoading == location.path = "/analysis" /\ AnalysisPage.loading
ProgressLoading == location.path = "/progress" /\ ProgressPage.loading
Uploading == location.path = "/dashboard" /\ Dashboard.uploading
Submitting == location.path = "/auth" /\ AuthPage.loading

\* C19: when every request settles, each in-progress flag that is true
\* eventually becomes false: the three page loading flags, the upload
\* in-flight flag and the auth-form loading flag.
C19_InProgressEnds ==
  /\ DashboardLoading ~> ~DashboardLoading
  /\ AnalysisLoading ~> ~AnalysisLoading
  /\ ProgressLoading ~> ~ProgressLoading
  /\ Uploading ~> ~Uploading
  /\ Submitting ~> ~Submitting

\* C19 witness: a login was rejected with a network error and the auth form,
\* still on screen, has left its loading state.
C19_Witness ==
  /\ Response("handleSubmit") /\ last.status = 0 /\ last.live
  /\ location = Loc("/auth")
  /\ ~AuthPage.loading

\* The number of requests of the calls cs of the bag b that are on the wire
RECURSIVE RequestCount(_, _)
RequestCount(b, cs) ==
  IF cs = {} THEN 0
  ELSE LET c == CHOOSE x \in cs : TRUE
       IN CopiesIn(c, b) * Cardinality(c.pending) + RequestCount(b, cs \ {c})

RequestsOnWire == RequestCount(calls, BagToSet(calls))

\* The requests the mount effect of the page at `path` issues
LoaderRequests(path) ==
  CASE path = "/dashboard" -> 3
    [] path = "/progress"  -> 2
    [] path = "/analysis"  -> 1
    [] OTHER               -> 0

\* C20: no request is retried automatically.  A step issues the loader
\* requests of the page it brings on screen exactly once (the Analysis Detail
\* loader once per route id), one request for a form submission or an accepted
\* file, and nothing else; in particular the step that handles a failed
\* response issues no request.
C20_NoAutomaticRetry ==
  [][LET activated == last'.op = "App" \/ location' # location
         loads == IF activated THEN LoaderRequests(location'.path) ELSE 0
         accepted == /\ last'.op = "file"
                     /\ last'.file.selected
                     /\ StartsWith(last'.file.type, ImagePrefix)
         sends == IF last'.op = "submit" \/ accepted THEN 1 ELSE 0
         answered == IF last'.op = "response" THEN 1 ELSE 0
     IN /\ last'.issued = loads + sends
        /\ last'.op # "App" =>
             RequestCount(calls', BagToSet(calls')) = RequestsOnWire - answered + last'.issued
        /\ (last'.op = "response" /\ last'.status # 200) => last'.issued = 0]_vars

\* C20 witness: the Progress load has failed with a network error, the page is
\* still on screen out of its loading state, and the step issued no request.
C20_Witness ==
  /\ Response("loadProgress") /\ last.status = 0 /\ last.handled /\ last.live
  /\ location = Loc("/progress")
  /\ ~ProgressPage.loading
  /\ last.issued = 0

\* C21: on the Analysis Detail page, whenever analysis content is displayed it
\* is the record of the current route id: neither the record loaded for a
\* previous id nor a late response for an earlier id is shown under the
\* current id.
C21_ContentIsOfRouteId ==
  View = "Analysis" => AnalysisPage.analysis = location.id

====
